---- MODULE Spec2Model ----
(***************************************************************************)
(* The SSF wire protocol of veneur (src/protocol/wire.go): ReadSSF,        *)
(* readFrame, ParseSSF, WriteSSF and the scratch-buffer pool, as a state   *)
(* machine.  One caller runs the operations one after the other; every     *)
(* call of Read or Write on a stream is one step, so that partial reads,   *)
(* reads that come back with an error and failing writes are all visible.  *)
(***************************************************************************)
EXTENDS Integers, Sequences, FiniteSets, TLC

VARIABLES
    in,         \* the io.Reader ReadSSF reads from: data, read position, how it ends
    out,        \* the io.Writer WriteSSF writes to: bytes taken, room left, Write calls
    todo,       \* the calls the caller still makes: WriteSSF of a span, ParseSSF of a packet
    pc,         \* where the running operation stands ("idle": none runs)
    frame,      \* the locals of the running ReadSSF/WriteSSF call
    held,       \* the *proto.Buffer the running operation took from the pool
    pbufPool,   \* the buffers lying in the pool
    unreleased, \* buffers whose operation returned without putting them back
    log,        \* what the calls returned, in call order
    sched,      \* which goroutine runs, and pc, frame and held of the one that waits
    er          \* the EndpointResolver: CacheProbability, lastResolvedURL

vars == <<in, out, todo, pc, frame, held, pbufPool, unreleased, log, sched, er>>

---------------------------------------------------------------------------
(* Bounds of the model. *)

\* frames a stream offered to ReadSSF holds at most
MaxFrames == 2
\* spans the caller hands to WriteSSF at most
MaxSpans == 2
\* packets the caller hands to ParseSSF at most
MaxParses == 2
\* calls of ResolveEndpoint at most
MaxCalls == 3

---------------------------------------------------------------------------
(* Constants of the program. *)

MaxSSFPacketLength == 16 * 1024 * 1024
SSFFrameLength == 1 + 4
version0 == 0

Last(s) == s[Len(s)]

\* encoding/binary BigEndian.Uint32 and PutUint32, as binary.Read/Write use them
Uint32(b) == ((b[1] * 256 + b[2]) * 256 + b[3]) * 256 + b[4]
PutUint32(n) ==
    << (n \div (256 * 256 * 256)) % 256, (n \div (256 * 256)) % 256,
       (n \div 256) % 256, n % 256 >>

\* A byte slice is the sequence of its bytes, 0..255.  An item above 255
\* stands for a run of bytes too long to write out one by one: Run(n) is n
\* bytes of the content of one string field.
Run(n) == 256 + n
SizeOf(b) == IF b < 256 THEN 1 ELSE b - 256

\* len(p) of a byte slice p
RECURSIVE Size(_)
Size(s) == IF Len(s) = 0 THEN 0 ELSE SizeOf(Head(s)) + Size(Tail(s))

\* p[:n]
RECURSIVE Prefix(_, _)
Prefix(s, n) ==
    IF n = 0 \/ Len(s) = 0 THEN <<>>
    ELSE IF SizeOf(Head(s)) <= n
    THEN <<Head(s)>> \o Prefix(Tail(s), n - SizeOf(Head(s)))
    ELSE <<Run(n)>>

---------------------------------------------------------------------------
(* ssf.SSFSpan and its protobuf encoding.                                  *)
(* A span is [Id, TraceId, StartTimestamp, EndTimestamp, Name, Tags,       *)
(* Metrics].  Tags is [nil, kv]: a nil map, or the set kv of <<key,value>> *)
(* pairs with unique keys.  A sample is [nil, SampleRate]; rate 2 stands   *)
(* for any rate other than 0 and 1 (0.5, say).                             *)
(* The encoding keeps what proto3 does: one tagged item per field that is  *)
(* set, nothing for a zero value or an empty map, field number 0 illegal,  *)
(* unknown field numbers skipped.  An item is one byte here, field number  *)
(* in the high four bits and value in the low four.  The one exception is  *)
(* the name LongName, a string of LongLen bytes: its item is followed by    *)
(* the run of its bytes.                                                   *)

Strs == <<"", "foo", "bar">>
Keys == <<"name", "host">>
\* a name as long as the largest payload a frame may carry
LongName == "long"
LongLen == MaxSSFPacketLength
Names == Strs \o <<LongName>>
StrIdx(s) == CHOOSE i \in 1..Len(Strs) : Strs[i] = s
KeyIdx(k) == CHOOSE i \in 1..Len(Keys) : Keys[i] = k

FId == 1
FTraceId == 2
FStart == 3
FEnd == 4
FName == 5
FTags == 6
FMetrics == 7

Tok(field, val) == 16 * field + val
FieldOf(b) == b \div 16
ValOf(b) == b % 16
TagTok(k, v) == Tok(FTags, 4 * (KeyIdx(k) - 1) + (StrIdx(v) - 1))

NilTags == [nil |-> TRUE, kv |-> {}]
MkTags(kv) == [nil |-> FALSE, kv |-> kv]
Sample(r) == [nil |-> FALSE, SampleRate |-> r]
NilSample == [nil |-> TRUE, SampleRate |-> 0]

\* &ssf.SSFSpan{}
ZeroSpan ==
    [Id |-> 0, TraceId |-> 0, StartTimestamp |-> 0, EndTimestamp |-> 0,
     Name |-> "", Tags |-> NilTags, Metrics |-> <<>>]

IntTok(field, v) == IF v = 0 THEN <<>> ELSE <<Tok(field, v)>>

\* every tag item there is, in the order Marshal writes them
AllTagPairs ==
    << <<"name", "">>, <<"name", "foo">>, <<"name", "bar">>,
       <<"host", "">>, <<"host", "foo">>, <<"host", "bar">> >>

RECURSIVE TagToks(_, _)
TagToks(kv, i) ==
    IF i > Len(AllTagPairs) THEN <<>>
    ELSE (IF AllTagPairs[i] \in kv
          THEN <<TagTok(AllTagPairs[i][1], AllTagPairs[i][2])>> ELSE <<>>)
         \o TagToks(kv, i + 1)

NameTok(name) ==
    IF name = ""
    THEN <<>>
    ELSE IF name = LongName
    THEN <<Tok(FName, Len(Strs)), Run(LongLen)>>
    ELSE <<Tok(FName, StrIdx(name) - 1)>>

\* pbuf.Marshal(ssf): fails on a nil element of the repeated field
MarshalFails(span) == \E i \in 1..Len(span.Metrics) : span.Metrics[i].nil

Marshal(span) ==
    IntTok(FId, span.Id) \o IntTok(FTraceId, span.TraceId)
    \o IntTok(FStart, span.StartTimestamp) \o IntTok(FEnd, span.EndTimestamp)
    \o NameTok(span.Name)
    \o TagToks(span.Tags.kv, 1)
    \o [i \in 1..Len(span.Metrics) |-> Tok(FMetrics, span.Metrics[i].SampleRate)]

\* whether one item is malformed for scratchBuff.Unmarshal (a run is the
\* content of the string field before it, and is passed over)
BadTok(b) ==
    \/ FieldOf(b) = 0
    \/ FieldOf(b) = FName /\ ValOf(b) >= Len(Names)
    \/ FieldOf(b) = FTags /\ (ValOf(b) % 4 >= Len(Strs) \/ ValOf(b) \div 4 >= Len(Keys))
    \/ FieldOf(b) = FMetrics /\ ValOf(b) > 2

PutTag(tags, k, v) == MkTags({p \in tags.kv : p[1] # k} \cup {<<k, v>>})

\* one well-formed item applied to the span being decoded
Apply(span, b) ==
    LET f == FieldOf(b)
        v == ValOf(b)
    IN  CASE f = FId -> [span EXCEPT !.Id = v]
          [] f = FTraceId -> [span EXCEPT !.TraceId = v]
          [] f = FStart -> [span EXCEPT !.StartTimestamp = v]
          [] f = FEnd -> [span EXCEPT !.EndTimestamp = v]
          [] f = FName -> [span EXCEPT !.Name = Names[v + 1]]
          [] f = FTags ->
                [span EXCEPT !.Tags = PutTag(span.Tags, Keys[(v \div 4) + 1], Strs[(v % 4) + 1])]
          [] f = FMetrics -> [span EXCEPT !.Metrics = Append(span.Metrics, Sample(v))]
          [] OTHER -> span

RECURSIVE Decode(_, _, _)
Decode(span, packet, i) ==
    IF i > Len(packet) THEN span ELSE Decode(Apply(span, packet[i]), packet, i + 1)

\* scratchBuff.Unmarshal(span) on the bytes SetBuf put in the buffer
UnmarshalFails(packet) == \E i \in 1..Len(packet) : BadTok(packet[i])
Unmarshal(packet) == Decode(ZeroSpan, packet, 1)

---------------------------------------------------------------------------
(* ParseSSF's normalization of the decoded span. *)

\* NormTags leaving a nil map as it is
NormTagsKeepNil(span) == span

NormTags(span) == IF span.Tags.nil THEN [span EXCEPT !.Tags = MkTags({})] ELSE span

\* NormName without the delete
NormNameNoDelete(span) ==
    IF span.Name = ""
    THEN LET named == {p \in span.Tags.kv : p[1] = "name"}
         IN  [span EXCEPT
                !.Name = IF named = {} THEN "" ELSE (CHOOSE p \in named : TRUE)[2]]
    ELSE span

NormName(span) ==
    IF span.Name = ""
    THEN LET named == {p \in span.Tags.kv : p[1] = "name"}
         IN  [span EXCEPT
                !.Name = IF named = {} THEN "" ELSE (CHOOSE p \in named : TRUE)[2],
                !.Tags = [span.Tags EXCEPT !.kv = span.Tags.kv \ named]]
    ELSE span

NormRate(sample) ==
    IF sample.SampleRate = 0 THEN [sample EXCEPT !.SampleRate = 1] ELSE sample

\* NormMetrics leaving its loop after the first rate it has set
NormMetricsFirstOnly(span) ==
    LET zeros == {i \in 1..Len(span.Metrics) : span.Metrics[i].SampleRate = 0}
    IN  [span EXCEPT !.Metrics =
            [i \in 1..Len(span.Metrics) |->
                IF i \in zeros /\ (\A j \in zeros : i <= j)
                THEN NormRate(span.Metrics[i]) ELSE span.Metrics[i]]]

NormMetrics(span) ==
    [span EXCEPT !.Metrics = [i \in 1..Len(span.Metrics) |-> NormRate(span.Metrics[i])]]

Normalize(span) == NormMetrics(NormName(NormTags(span)))

---------------------------------------------------------------------------
(* The streams. *)

NoStream == [data |-> <<>>, pos |-> 0, end |-> "none"]
NoWriter == [written |-> <<>>, failOn |-> 0, calls |-> 0]

Min(a, b) == IF a < b THEN a ELSE b

\* What one call in.Read(p) with len(p) = want may return, by io.Reader's
\* contract: up to want of the bytes that are left; the error that ends the
\* stream either with the last bytes or alone on the call after them; and for
\* an empty p either (0, nil) or, at the end of the stream, (0, err)
\* (bytes.Reader does the latter, a net.Conn the former).  A read of no byte
\* with no error for a non-empty p changes nothing and is left out.
Read(want) ==
    LET avail == Len(in.data) - in.pos
    IN  IF want = 0
        THEN {[n |-> 0, err |-> "nil"]}
             \cup (IF avail = 0 THEN {[n |-> 0, err |-> in.end]} ELSE {})
        ELSE IF avail = 0
        THEN {[n |-> 0, err |-> in.end]}
        ELSE {[n |-> k, err |-> "nil"] : k \in 1..Min(want, avail)}
             \cup (IF avail <= want THEN {[n |-> avail, err |-> in.end]} ELSE {})

\* the bytes a read of n bytes delivers, and the reader after it
Got(n) == SubSeq(in.data, in.pos + 1, in.pos + n)
Advance(n) == [in EXCEPT !.pos = in.pos + n]

\* the error io.ReadFull returns to binary.Read after a read that took the
\* count to n of min bytes and came back with err
ReadFullErr(n, min, err) ==
    IF n >= min THEN "nil"
    ELSE IF n > 0 /\ err = "EOF" THEN "UnexpectedEOF"
    ELSE err

---------------------------------------------------------------------------
(* The scratch-buffer pool. *)
(* A *proto.Buffer is [id, buf, packet, arr].  id tells the buffers apart,  *)
(* buf is the byte slice.  When the array behind that slice is the array   *)
(* of a packet handed to ParseSSF, packet is that packet as it was handed  *)
(* over and arr is what the array holds now; for an array of the buffer's  *)
(* own both are empty.                                                     *)

NoBuf == [buf |-> <<-1>>]

\* the buffers there are: held by a call, in the pool, or left behind
Live ==
    ({held, sched.parked.held} \ {NoBuf})
    \cup {pbufPool[i] : i \in 1..Len(pbufPool)}
    \cup {unreleased[i] : i \in 1..Len(unreleased)}

\* pbufPool.New: proto.NewBuffer(nil)
New ==
    [id |-> CHOOSE n \in 1..(Cardinality(Live) + 1) :
                /\ \A b \in Live : b.id # n
                /\ \A m \in 1..(n - 1) : \E b \in Live : b.id = m,
     buf |-> <<>>, packet |-> <<>>, arr |-> <<>>]
\* (*proto.Buffer).Reset: p.buf = p.buf[0:0], the array stays
Reset(b) == [b EXCEPT !.buf = <<>>]
\* (*proto.Buffer).SetBuf: p.buf = s, no copy
SetBuf(b, s) == [b EXCEPT !.buf = s, !.packet = s, !.arr = s]

\* p.buf = append(p.buf, data...), as Marshal does: into the array behind
\* buf when data fits its capacity (that of a packet is taken to be its
\* length), into a new array otherwise
AppendBuf(b, data) ==
    IF Size(b.buf) + Size(data) <= Size(b.arr)
    THEN [b EXCEPT !.buf = b.buf \o data,
                   !.arr = b.buf \o data
                           \o SubSeq(b.arr, Len(b.buf) + Len(data) + 1, Len(b.arr))]
    ELSE [b EXCEPT !.buf = b.buf \o data, !.packet = <<>>, !.arr = <<>>]

\* Get leaving the buffer it hands out in the pool
GetKept(b, pool) ==
    \/ pool # <<>> /\ b = Head(pool) /\ pbufPool' = pool
    \/ b = New /\ pbufPool' = <<>>

\* pbufPool.Get(): a buffer of the pool, or a new one when the pool is empty
\* (the collector may have emptied it in the meantime)
Get(b, pool) ==
    \/ pool # <<>> /\ b = Head(pool) /\ pbufPool' = Tail(pool)
    \/ b = New /\ pbufPool' = <<>>

\* pbufPool.Put(b)
Put(b) == pbufPool' = Append(pbufPool, b)

---------------------------------------------------------------------------
(* What a call returns. *)

\* IsFramingError: the errors after which the stream is to be given up
IsFramingError(kind) == kind \in {"FramingIO", "FrameVersion", "FrameLength"}

Ret(op, kind, cause, val, span) ==
    [op |-> op, kind |-> kind, cause |-> cause, val |-> val, span |-> span,
     bts |-> frame.bts, self |-> sched.self,
     from |-> frame.start, to |-> IF op = "WriteSSF" THEN Len(out'.written) ELSE in'.pos,
     calls |-> IF op = "WriteSSF" THEN out'.calls - frame.calls ELSE 0,
     ncall |-> IF op = "WriteSSF" THEN out'.calls ELSE 0]

Return(entry) == log' = Append(log, entry) /\ pc' = "idle"

NoFrame ==
    [start |-> 0, calls |-> 0, hdr |-> <<>>, length |-> 0, bts |-> <<>>, span |-> ZeroSpan]

reads == SelectSeq(log, LAMBDA e : e.op = "ReadSSF")

\* the caller reads on after a message or a decode failure, and stops at the
\* end of the stream or at a fatal error
MayRead == IF Len(reads) = 0 THEN TRUE ELSE Last(reads).kind \in {"msg", "Decode"}

---------------------------------------------------------------------------
(* ReadSSF *)

ReadSSFCall ==
    /\ pc = "idle" /\ in.end # "none" /\ MayRead
    /\ pc' = "version"
    /\ frame' = [NoFrame EXCEPT !.start = in.pos]
    /\ UNCHANGED <<in, out, todo, held, pbufPool, unreleased, log, sched, er>>

\* VersionResult with the version check left out
VersionResultUnchecked(b, err) ==
    IF err # "nil"
    THEN IF err = "EOF" THEN "EOF" ELSE "FramingIO"
    ELSE "go on"

\* what becomes of the call after binary.Read(in, BigEndian, &version)
\* returned err having read the bytes b
VersionResult(b, err) ==
    IF err # "nil"
    THEN IF err = "EOF" THEN "EOF" ELSE "FramingIO"
    ELSE IF b[1] # version0 THEN "FrameVersion" ELSE "go on"

ReadSSFVersion ==
    /\ pc = "version"
    /\ \E r \in Read(1) :
         LET err == ReadFullErr(r.n, 1, r.err)
             res == VersionResult(Got(r.n), err)
         IN  /\ in' = Advance(r.n)
             /\ IF res = "go on"
                THEN /\ pc' = "length"
                     /\ UNCHANGED log
                ELSE Return(Ret("ReadSSF", res, err,
                                IF r.n = 1 THEN Got(r.n)[1] ELSE 0, ZeroSpan))
    /\ UNCHANGED <<out, todo, frame, held, pbufPool, unreleased, sched, er>>

\* LengthResult passing an EOF through as it is, as the version read does
LengthResultEOFPassed(hdr, err) ==
    IF err = "EOF" THEN "EOF"
    ELSE IF err # "nil" THEN "FramingIO"
    ELSE IF Uint32(hdr) > MaxSSFPacketLength THEN "FrameLength" ELSE "go on"

\* LengthResult refusing the maximum length itself
LengthResultAtMax(hdr, err) ==
    IF err # "nil" THEN "FramingIO"
    ELSE IF Uint32(hdr) >= MaxSSFPacketLength THEN "FrameLength" ELSE "go on"

\* what becomes of the call after binary.Read(in, BigEndian, &length)
\* returned err, the four bytes read being hdr when err is nil
LengthResult(hdr, err) ==
    IF err # "nil" THEN "FramingIO"
    ELSE IF Uint32(hdr) > MaxSSFPacketLength THEN "FrameLength" ELSE "go on"

\* one in.Read of io.ReadFull inside binary.Read(in, BigEndian, &length)
ReadSSFLength ==
    /\ pc = "length"
    /\ \E r \in Read(4 - Len(frame.hdr)) :
         LET hdr == frame.hdr \o Got(r.n)
             err == ReadFullErr(Len(hdr), 4, r.err)
         IN  /\ in' = Advance(r.n)
             /\ IF Len(hdr) < 4 /\ r.err = "nil"
                THEN /\ frame' = [frame EXCEPT !.hdr = hdr]
                     /\ UNCHANGED <<pc, log>>
                ELSE LET res == LengthResult(hdr, err)
                     IN  IF res = "go on"
                         THEN /\ frame' = [frame EXCEPT !.hdr = hdr, !.length = Uint32(hdr)]
                              /\ pc' = "payload"
                              /\ UNCHANGED log
                         ELSE /\ Return(Ret("ReadSSF", res, err,
                                            IF err = "nil" THEN Uint32(hdr) ELSE 0, ZeroSpan))
                              /\ frame' = [frame EXCEPT !.hdr = hdr]
    /\ UNCHANGED <<out, todo, held, pbufPool, unreleased, sched, er>>

\* what one pass of readFrame's loop makes of in.Read's (n, err) when read
\* bytes of length were there before: "err", "done" or "more"
readFrameStep(read, length, n, err) ==
    IF err # "nil" THEN "err"
    ELSE IF read + n = length THEN "done" ELSE "more"

\* one pass of the loop of readFrame(in, int(length))
readFrame ==
    /\ pc = "payload"
    /\ \E r \in Read(frame.length - Len(frame.bts)) :
         LET step == readFrameStep(Len(frame.bts), frame.length, r.n, r.err)
         IN  /\ in' = Advance(r.n)
             /\ IF step = "err"
                THEN /\ Return(Ret("ReadSSF", "FramingIO", r.err, 0, ZeroSpan))
                     /\ UNCHANGED frame
                ELSE /\ frame' = [frame EXCEPT !.bts = frame.bts \o Got(r.n)]
                     /\ pc' = IF step = "done" THEN "parse" ELSE "payload"
                     /\ UNCHANGED log
    /\ UNCHANGED <<out, todo, held, pbufPool, unreleased, sched, er>>

---------------------------------------------------------------------------
(* ParseSSF *)

\* a call the caller is to make, and a sequence of such calls
Task(op, arg) == [op |-> op, arg |-> arg]
Tasks(op, args) == [i \in 1..Len(args) |-> Task(op, args[i])]

\* the next call the caller is to make is a call of op
NextIs(op) == IF Len(todo) = 0 THEN FALSE ELSE Head(todo).op = op

\* ParseSSF(packet) called by the caller itself, not through ReadSSF
ParseSSFCall ==
    /\ pc = "idle" /\ in.end = "none" /\ NextIs("ParseSSF")
    /\ frame' = [NoFrame EXCEPT !.bts = Head(todo).arg]
    /\ todo' = Tail(todo)
    /\ pc' = "parse"
    /\ UNCHANGED <<in, out, held, pbufPool, unreleased, log, sched, er>>

\* the calls of ParseSSF the caller made itself
parses == SelectSeq(log, LAMBDA e : e.op = "ParseSSF")

\* ParseSSF called with the span of the message it returned last, serialized
\* again
ParseSSFAgain ==
    /\ pc = "idle" /\ in.end = "none" /\ todo = <<>>
    /\ Len(log) > 0 /\ Len(parses) < MaxParses
    /\ Last(log).op = "ParseSSF" /\ Last(log).kind = "msg"
    /\ frame' = [NoFrame EXCEPT !.bts = Marshal(Last(log).span)]
    /\ pc' = "parse"
    /\ UNCHANGED <<in, out, todo, held, pbufPool, unreleased, log, sched, er>>

\* scratchBuff := pbufPool.Get(); scratchBuff.SetBuf(packet)
ParseSSFGet ==
    /\ pc = "parse"
    /\ \E b \in {New} \cup {pbufPool[i] : i \in 1..Len(pbufPool)} :
         /\ Get(b, pbufPool)
         /\ held' = SetBuf(b, frame.bts)
    /\ pc' = "unmarshal"
    /\ UNCHANGED <<in, out, todo, frame, unreleased, log, sched, er>>

\* the deferred function of ParseSSF: the buffer the pool gets back
ParseSSFDeferred(b) == Reset(b)

\* ParseSSFResult with the decode failure reported as a framing error
ParseSSFResultFatal(packet) ==
    IF UnmarshalFails(packet)
    THEN [kind |-> "FramingIO", span |-> ZeroSpan]
    ELSE [kind |-> "msg", span |-> Normalize(Unmarshal(packet))]

\* what ParseSSF returns for the bytes in its scratch buffer
ParseSSFResult(packet) ==
    IF UnmarshalFails(packet)
    THEN [kind |-> "Decode", span |-> ZeroSpan]
    ELSE [kind |-> "msg", span |-> Normalize(Unmarshal(packet))]

\* err := scratchBuff.Unmarshal(span), the normalization, and the deferred
\* Reset and Put on the way out
ParseSSFUnmarshal ==
    /\ pc = "unmarshal"
    /\ LET res == ParseSSFResult(held.buf)
       IN  /\ in' = in
           /\ Return(Ret(IF in.end = "none" THEN "ParseSSF" ELSE "ReadSSF",
                          res.kind, "nil", 0, res.span))
    /\ Put(ParseSSFDeferred(held))
    /\ held' = NoBuf
    /\ UNCHANGED <<out, todo, frame, unreleased, sched, er>>

---------------------------------------------------------------------------
(* Message *)

\* a nil *ssf.SSFSpan
NilSpan == [nil |-> TRUE]

\* ValidTrace without the check of EndTimestamp
ValidTraceNoEnd(sample) ==
    /\ sample.Id # 0
    /\ sample.TraceId # 0
    /\ sample.StartTimestamp # 0

ValidTrace(sample) ==
    /\ sample.Id # 0
    /\ sample.TraceId # 0
    /\ sample.StartTimestamp # 0
    /\ sample.EndTimestamp # 0

\* (m *Message).TraceSpan(): the span and the error returned; the error is
\* nil ("nil") or an *InvalidTrace with its span
TraceSpan(m) ==
    IF ~ValidTrace(m.span)
    THEN [span |-> NilSpan, err |-> "InvalidTrace", errspan |-> m.span]
    ELSE [span |-> m.span, err |-> "nil", errspan |-> NilSpan]

\* Metrics handing out the samples of a valid trace only
MetricsOfValid(m) == IF ValidTrace(m.span) THEN m.span.Metrics ELSE <<>>

\* (m *Message).Metrics()
Metrics(m) == m.span.Metrics

\* the last message a call returned to the caller is log[LastMsg], if any
LastMsg ==
    IF Len(log) = 0 THEN 0
    ELSE IF Last(log).op \in {"TraceSpan", "Metrics"} THEN Last(log).msg
    ELSE IF Last(log).kind = "msg" THEN Len(log)
    ELSE 0

\* the caller asks the message it got last for its trace span
MessageTraceSpan ==
    /\ pc = "idle" /\ LastMsg = Len(log) /\ LastMsg > 0
    /\ LET res == TraceSpan([span |-> log[LastMsg].span])
       IN  log' = Append(log, [op |-> "TraceSpan", kind |-> res.err, msg |-> LastMsg,
                               span |-> res.span, errspan |-> res.errspan])
    /\ UNCHANGED <<in, out, todo, pc, frame, held, pbufPool, unreleased, sched, er>>

\* ... and for its metrics, before or after
MessageMetrics ==
    /\ pc = "idle" /\ LastMsg > 0 /\ Last(log).op # "Metrics"
    /\ log' = Append(log, [op |-> "Metrics", kind |-> "samples", msg |-> LastMsg,
                            samples |-> Metrics([span |-> log[LastMsg].span])])
    /\ UNCHANGED <<in, out, todo, pc, frame, held, pbufPool, unreleased, sched, er>>

---------------------------------------------------------------------------
(* WriteSSF *)

\* What one call out.Write(p) may return, by io.Writer's contract: (len(p), nil),
\* or an error with fewer than len(p) bytes taken.  The writer fails on its
\* failOn-th call (never when failOn = 0).
Write(p) ==
    IF out.calls + 1 = out.failOn
    THEN {[n |-> k, err |-> "ERR"] : k \in {0, IF Size(p) > 0 THEN Size(p) - 1 ELSE 0}}
    ELSE {[n |-> Size(p), err |-> "nil"]}

Taken(p, n) ==
    [out EXCEPT !.written = out.written \o Prefix(p, n), !.calls = out.calls + 1]

writes == SelectSeq(log, LAMBDA e : e.op = "WriteSSF")

\* the caller writes on after a success or a serialization failure, and gives
\* the stream up at a fatal error
MayWrite == IF Len(writes) = 0 THEN TRUE ELSE Last(writes).kind # "FramingIO"

\* where a call of WriteSSF stands while it runs
WritePcs == {"marshal", "wversion", "wlength", "wpayload"}

\* pbuf := pbufPool.Get(); one goroutine at a time writes to the stream
WriteSSFGet ==
    /\ pc = "idle" /\ in.end = "none" /\ NextIs("WriteSSF") /\ MayWrite
    /\ sched.parked.pc \notin WritePcs
    /\ \E b \in {New} \cup {pbufPool[i] : i \in 1..Len(pbufPool)} :
         /\ Get(b, pbufPool)
         /\ held' = b
    /\ frame' = [NoFrame EXCEPT !.start = Len(out.written), !.calls = out.calls,
                                 !.span = Head(todo).arg]
    /\ todo' = Tail(todo)
    /\ pc' = "marshal"
    /\ UNCHANGED <<in, out, unreleased, log, sched, er>>

\* MarshalErrResult with the error wrapped into a framing error
MarshalErrResultFraming == "FramingIO"

\* the kind of error WriteSSF returns when pbuf.Marshal failed: the error as
\* it is, not wrapped into a framing error
MarshalErrResult == "Encode"

\* err := pbuf.Marshal(ssf), which appends to the buffer, and the return on
\* its failure: that return comes before the deferred function is set up, so
\* the buffer is neither reset nor put back, and is left to the collector
WriteSSFMarshal ==
    /\ pc = "marshal"
    /\ IF MarshalFails(frame.span)
       THEN /\ out' = out
            /\ Return(Ret("WriteSSF", MarshalErrResult, "marshal", 0, frame.span))
            /\ unreleased' = Append(unreleased, held)
            /\ UNCHANGED pbufPool
            /\ held' = NoBuf
       ELSE /\ held' = AppendBuf(held, Marshal(frame.span))
            /\ pc' = "wversion"
            /\ UNCHANGED <<out, pbufPool, unreleased, log>>
    /\ UNCHANGED <<in, todo, frame, sched, er>>

\* WriteSSFDeferred without the Reset
WriteSSFDeferredNoReset(b) == b

\* the deferred function of WriteSSF: the buffer the pool gets back
WriteSSFDeferred(b) == Reset(b)

\* WriteSSFFail returning the writer's error as it is, not wrapped into a
\* framing error
WriteSSFFailRaw(n) ==
    /\ Return(Ret("WriteSSF", "IO", "ERR", n, frame.span))
    /\ Put(Reset(held))
    /\ held' = NoBuf

\* the return of WriteSSF after one of its writes failed
WriteSSFFail(n) ==
    /\ Return(Ret("WriteSSF", "FramingIO", "ERR", n, frame.span))
    /\ Put(WriteSSFDeferred(held))
    /\ held' = NoBuf

\* binary.Write(out, binary.BigEndian, version0)
WriteSSFVersion ==
    /\ pc = "wversion"
    /\ \E r \in Write(<<version0>>) :
         /\ out' = Taken(<<version0>>, r.n)
         /\ IF r.err # "nil"
            THEN WriteSSFFail(0)
            ELSE pc' = "wlength" /\ UNCHANGED <<held, pbufPool, log>>
    /\ UNCHANGED <<in, todo, frame, unreleased, sched, er>>

\* the length field WriteSSF writes for the buffer's bytes (PutUint32 keeps
\* the low 32 bits, as the conversion to uint32 does)
LengthField(buf) == PutUint32(Size(buf))

\* binary.Write(out, binary.BigEndian, uint32(len(pbuf.Bytes())))
WriteSSFLength ==
    /\ pc = "wlength"
    /\ \E r \in Write(LengthField(held.buf)) :
         /\ out' = Taken(LengthField(held.buf), r.n)
         /\ IF r.err # "nil"
            THEN WriteSSFFail(0)
            ELSE pc' = "wpayload" /\ UNCHANGED <<held, pbufPool, log>>
    /\ UNCHANGED <<in, todo, frame, unreleased, sched, er>>

\* the count WriteSSF returns when out.Write(pbuf.Bytes()) took n bytes with
\* no error
WriteSSFCount(n) == n

\* n, err := out.Write(pbuf.Bytes()) and the return
WriteSSFPayload ==
    /\ pc = "wpayload"
    /\ \E r \in Write(held.buf) :
         /\ out' = Taken(held.buf, r.n)
         /\ IF r.err # "nil"
            THEN WriteSSFFail(r.n)
            ELSE /\ Return(Ret("WriteSSF", "ok", "nil", WriteSSFCount(r.n), frame.span))
                 /\ Put(WriteSSFDeferred(held))
                 /\ held' = NoBuf
    /\ UNCHANGED <<in, todo, frame, unreleased, sched, er>>

\* the peer end of the stream: what WriteSSF wrote is what ReadSSF reads once
\* the writer is through and has closed the stream
Loopback ==
    /\ pc = "idle" /\ in.end = "none" /\ Len(writes) > 0
    /\ (todo = <<>> \/ ~MayWrite)
    /\ in' = [data |-> out.written, pos |-> 0, end |-> "EOF"]
    /\ UNCHANGED <<out, todo, pc, frame, held, pbufPool, unreleased, log, sched, er>>

---------------------------------------------------------------------------
(* EndpointResolver (src/endpoint_resolver.go)                             *)
(* A URL string is taken by its parts: [kind, host, port].  kind "url" is  *)
(* a string such as "http://host:port/" (port "" when it names none),      *)
(* "malformed" one that url.Parse refuses, "empty" the string "".          *)

Url(host, port) == [kind |-> "url", host |-> host, port |-> port]
Malformed == [kind |-> "malformed", host |-> "", port |-> ""]
EmptyString == [kind |-> "empty", host |-> "", port |-> ""]

\* NewEndpointResolver(probability); probabilities and draws count tenths
NewEndpointResolver(probability) ==
    [CacheProbability |-> probability, lastResolvedURL |-> EmptyString]
NoResolver == NewEndpointResolver(0)

\* CacheHit letting a draw equal to the probability hit as well
CacheHitOrEqual(last, draw, probability) ==
    last # EmptyString /\ draw <= probability

\* er.lastResolvedURL != "" && rand.Float64() < er.CacheProbability
CacheHit(last, draw, probability) ==
    last # EmptyString /\ draw < probability

\* url.Parse(endpoint): the error and the URL's Host
Parse(endpoint) ==
    IF endpoint.kind = "malformed"
    THEN [err |-> "parse", Host |-> [host |-> "", port |-> ""]]
    ELSE [err |-> "nil", Host |-> [host |-> endpoint.host, port |-> endpoint.port]]

\* net.SplitHostPort(origURL.Host)
SplitHostPort(hostport) ==
    IF hostport.port = ""
    THEN [err |-> "missing port", host |-> "", port |-> ""]
    ELSE [err |-> "nil", host |-> hostport.host, port |-> hostport.port]

\* net.JoinHostPort(host, port) put in origURL.Host, and origURL.String()
JoinHostPort(host, port) == [host |-> host, port |-> port]
String(hostport) == Url(hostport.host, hostport.port)

\* what net.LookupHost may return for each host: the name service answers
\* for "a" with one or two addresses, for "b" with one, for "void" with
\* none, and knows no "nx"
Found(names) == [err |-> "nil", names |-> names]
LookupHost ==
    { [a |-> na, b |-> Found(<<"10.0.0.3">>), void |-> Found(<<>>),
       nx |-> [err |-> "no such host", names |-> <<>>]] :
      na \in {Found(<<"10.0.0.1", "10.0.0.2">>), Found(<<"10.0.0.2">>)} }

\* ResolveEndpoint(endpoint) for the draw rand.Float64() gave and the
\* answers dns the name service gives: the URL and the error returned, the
\* URL stored afterwards, and whether the argument was parsed and looked up
ResolveResult(endpoint, draw, dns) ==
    LET last == er.lastResolvedURL
        fail(e, parsed, looked) ==
            [url |-> endpoint, err |-> e, last |-> last, cached |-> FALSE,
             parsed |-> parsed, looked |-> looked]
    IN  IF CacheHit(last, draw, er.CacheProbability)
        THEN [url |-> last, err |-> "nil", last |-> last, cached |-> TRUE,
              parsed |-> FALSE, looked |-> FALSE]
        ELSE LET origURL == Parse(endpoint)
                 split == SplitHostPort(origURL.Host)
             IN  IF origURL.err # "nil" THEN fail(origURL.err, TRUE, FALSE)
                 ELSE IF split.err # "nil" THEN fail(split.err, TRUE, FALSE)
                 ELSE LET resolvedNames == dns[split.host]
                      IN  IF resolvedNames.err # "nil"
                          THEN fail(resolvedNames.err, TRUE, TRUE)
                          ELSE IF Len(resolvedNames.names) = 0
                          THEN fail("no hosts found", TRUE, TRUE)
                          ELSE LET new == String(JoinHostPort(resolvedNames.names[1],
                                                              split.port))
                               IN  [url |-> new, err |-> "nil", last |-> new,
                                    cached |-> FALSE, parsed |-> TRUE, looked |-> TRUE]

\* the arguments of ResolveEndpoint: URLs of hosts that resolve, of one that
\* resolves to nothing and of one that is unknown, a URL with no port, and a
\* string that is no URL
Endpoints ==
    { Url("a", "80"), Url("b", "8080"), Url("void", "80"), Url("nx", "80"),
      Url("a", ""), Malformed }

\* what rand.Float64() gives, in tenths: a number from 0 up to but not 1
Draws == {0, 6, 9}

\* the probabilities a resolver is made with, in tenths
Probabilities == {0, 7, 10}

\* the calls of ResolveEndpoint made so far
resolves == SelectSeq(log, LAMBDA e : e.op = "ResolveEndpoint")

\* one call of er.ResolveEndpoint(endpoint)
ResolveEndpoint ==
    /\ Len(resolves) < MaxCalls
    /\ \E endpoint \in Endpoints, draw \in Draws, dns \in LookupHost :
         LET res == ResolveResult(endpoint, draw, dns)
         IN  /\ er' = [er EXCEPT !.lastResolvedURL = res.last]
             /\ log' = Append(log, [op |-> "ResolveEndpoint", arg |-> endpoint,
                                     draw |-> draw,
                                     names |-> IF res.looked THEN dns[endpoint.host].names
                                               ELSE <<>>,
                                     before |-> er.lastResolvedURL, res |-> res])
    /\ UNCHANGED <<in, out, todo, pc, frame, held, pbufPool, unreleased, sched>>

---------------------------------------------------------------------------
(* Two goroutines *)

\* the goroutine that runs is put aside between two of its steps, and the
\* other one goes on where it stood
Yield ==
    /\ pc # "idle" \/ sched.parked.pc # "idle"
    /\ sched' = [self |-> 3 - sched.self,
                 parked |-> [pc |-> pc, frame |-> frame, held |-> held]]
    /\ pc' = sched.parked.pc
    /\ frame' = sched.parked.frame
    /\ held' = sched.parked.held
    /\ UNCHANGED <<in, out, todo, pbufPool, unreleased, log, er>>

---------------------------------------------------------------------------
(* The inputs. *)

\* payloads of the frames on the streams offered to ReadSSF: empty, one
\* sample of rate 0, an illegal item, two fields
Payloads ==
    { <<>>, <<Tok(FMetrics, 0)>>, <<Tok(0, 0)>>, <<Tok(FId, 1), TagTok("name", "foo")>> }

Frame(p) == <<version0>> \o PutUint32(Len(p)) \o p

\* frames ReadSSF refuses: another version, a length over the maximum; and
\* headers declaring the maximum length and a length of 256, with one byte of
\* payload behind them
OddFrames ==
    { <<1, 0, 0, 0, 1, Tok(FId, 1)>>,
      <<255, 0, 0, 0, 0>>,
      <<version0>> \o PutUint32(MaxSSFPacketLength + 1) \o <<Tok(FId, 1)>>,
      <<version0>> \o PutUint32(MaxSSFPacketLength) \o <<Tok(FId, 1)>>,
      <<version0>> \o PutUint32(256) \o <<Tok(FId, 1)>> }

Frames == {Frame(p) : p \in Payloads} \cup OddFrames

RECURSIVE Concats(_)
Concats(k) ==
    IF k = 0 THEN {<<>>}
    ELSE {<<>>} \cup {f \o s : f \in Frames, s \in Concats(k - 1)}

\* up to MaxFrames frames back to back, cut off anywhere
Streams == UNION {{SubSeq(s, 1, n) : n \in 0..Len(s)} : s \in Concats(MaxFrames)}

TagSets ==
    { NilTags, MkTags({}), MkTags({<<"name", "foo">>}), MkTags({<<"host", "bar">>}),
      MkTags({<<"name", "foo">>, <<"host", "bar">>}), MkTags({<<"name", "">>}) }

MetricSeqs ==
    { <<>>, <<Sample(0)>>, <<Sample(2)>>, <<Sample(0), Sample(1)>>,
      <<NilSample>>, <<Sample(1), NilSample>> }

IdSets == { <<0, 0, 0, 0>>, <<1, 1, 1, 1>>, <<1, 0, 1, 1>> }

Spans ==
    { [Id |-> ids[1], TraceId |-> ids[2], StartTimestamp |-> ids[3],
       EndTimestamp |-> ids[4], Name |-> nm, Tags |-> tg, Metrics |-> ms] :
      ids \in IdSets, nm \in {"", "bar"}, tg \in TagSets, ms \in MetricSeqs }

\* the spans of the runs that write more than one
FewSpans ==
    { ZeroSpan, [ZeroSpan EXCEPT !.Metrics = <<NilSample>>],
      [ZeroSpan EXCEPT !.Id = 1, !.Name = "foo", !.Metrics = <<Sample(2)>>] }

RECURSIVE SeqsUpTo(_, _)
SeqsUpTo(S, k) ==
    IF k = 0 THEN {<<>>}
    ELSE {<<>>} \cup {<<x>> \o s : x \in S, s \in SeqsUpTo(S, k - 1)}

Todos == {<<s>> : s \in Spans} \cup (SeqsUpTo(FewSpans, MaxSpans) \ {<<>>})

\* spans whose name alone is as long as the largest payload
LongSpans ==
    { [ZeroSpan EXCEPT !.Name = LongName],
      [ZeroSpan EXCEPT !.Id = 1, !.Name = LongName, !.Metrics = <<Sample(0)>>] }

\* the runs that write one of them, alone or among other spans
LongTodos ==
    { s \in SeqsUpTo(FewSpans \cup LongSpans, MaxSpans) :
        \E i \in 1..Len(s) : s[i] \in LongSpans }

---------------------------------------------------------------------------
(* The specifications. *)

\* one goroutine runs, the other has no call under way
NoSched == [self |-> 1, parked |-> [pc |-> "idle", frame |-> NoFrame, held |-> NoBuf]]

Rest ==
    /\ sched = NoSched
    /\ pc = "idle"
    /\ frame = NoFrame
    /\ held = NoBuf
    /\ pbufPool = <<>>
    /\ unreleased = <<>>
    /\ log = <<>>

\* a caller that writes spans to a stream, which a reader then reads
Init ==
    /\ in = NoStream
    /\ todo \in {Tasks("WriteSSF", s) : s \in Todos}
    /\ \E f \in 0..(3 * Len(todo)) : out = [NoWriter EXCEPT !.failOn = f]
    /\ Rest
    /\ er = NoResolver

\* the four numbers of a span: each zero or not, and a span that ends
\* before it starts
ParseIds ==
    {<<a, b, c, d>> : a \in {0, 1}, b \in {0, 1}, c \in {0, 1}, d \in {0, 1}}
    \cup {<<1, 1, 2, 1>>}

ParseMetrics ==
    { <<>>, <<Sample(0)>>, <<Sample(2), Sample(0)>>, <<Sample(0), Sample(1)>>,
      <<Sample(0), Sample(0)>> }

ParseSpans ==
    { [Id |-> ids[1], TraceId |-> ids[2], StartTimestamp |-> ids[3],
       EndTimestamp |-> ids[4], Name |-> nm, Tags |-> tg, Metrics |-> ms] :
      ids \in ParseIds, nm \in {"", "bar"}, tg \in TagSets, ms \in ParseMetrics }

\* packets handed to ParseSSF: serialized spans, and packets no Marshal
\* writes: an illegal item, an unknown field, a key or a field that comes
\* twice, a name behind the tag "name"
Packets ==
    {Marshal(s) : s \in ParseSpans}
    \cup { <<Tok(0, 0)>>, <<Tok(FId, 1), Tok(0, 1)>>, <<Tok(9, 1), Tok(FId, 1)>>,
           <<TagTok("name", "foo"), TagTok("name", "bar")>>,
           <<TagTok("name", "foo"), Tok(FName, 2)>>,
           <<Tok(FId, 1), Tok(FId, 0), Tok(FMetrics, 0)>> }

\* the packets of the runs that parse more than one
FewPackets ==
    { <<>>, <<Tok(0, 0)>>,
      <<Tok(FId, 1), Tok(FTraceId, 1), Tok(FStart, 1), Tok(FEnd, 1), Tok(FMetrics, 0)>> }

PacketTodos == {<<p>> : p \in Packets} \cup (SeqsUpTo(FewPackets, MaxParses) \ {<<>>})

\* a caller that hands packets to ParseSSF and asks the messages for their
\* trace span and metrics
InitParse ==
    /\ in = NoStream
    /\ todo \in {Tasks("ParseSSF", p) : p \in PacketTodos}
    /\ out = NoWriter
    /\ Rest
    /\ er = NoResolver

\* the calls two goroutines make between them: WriteSSF and ParseSSF in any
\* order
PoolTasks ==
    {Task("WriteSSF", s) : s \in FewSpans} \cup {Task("ParseSSF", p) : p \in FewPackets}

InitPool ==
    /\ in = NoStream
    /\ todo \in (SeqsUpTo(PoolTasks, MaxSpans) \ {<<>>})
    /\ \E f \in {0, 3} : out = [NoWriter EXCEPT !.failOn = f]
    /\ Rest
    /\ er = NoResolver

\* a resolver as NewEndpointResolver makes it
InitResolver ==
    /\ \E probability \in Probabilities : er = NewEndpointResolver(probability)
    /\ in = NoStream
    /\ todo = <<>>
    /\ out = NoWriter
    /\ Rest

\* the same caller with a span among them that has a long name
InitLong ==
    /\ in = NoStream
    /\ todo \in {Tasks("WriteSSF", s) : s \in LongTodos}
    /\ \E f \in 0..(3 * Len(todo)) : out = [NoWriter EXCEPT !.failOn = f]
    /\ Rest
    /\ er = NoResolver

\* a caller that reads a stream
InitRead ==
    /\ \E s \in Streams, e \in {"EOF", "ERR"} : in = [data |-> s, pos |-> 0, end |-> e]
    /\ todo = <<>>
    /\ out = NoWriter
    /\ Rest
    /\ er = NoResolver

NextRead ==
    \/ ReadSSFCall
    \/ ReadSSFVersion
    \/ ReadSSFLength
    \/ readFrame
    \/ ParseSSFGet
    \/ ParseSSFUnmarshal

Next ==
    \/ WriteSSFGet
    \/ WriteSSFMarshal
    \/ WriteSSFVersion
    \/ WriteSSFLength
    \/ WriteSSFPayload
    \/ Loopback
    \/ NextRead

Spec == Init /\ [][Next]_vars
SpecRead == InitRead /\ [][NextRead]_vars
SpecLong == InitLong /\ [][Next]_vars

NextParse ==
    \/ ParseSSFCall
    \/ ParseSSFAgain
    \/ ParseSSFGet
    \/ ParseSSFUnmarshal
    \/ MessageTraceSpan
    \/ MessageMetrics

SpecParse == InitParse /\ [][NextParse]_vars

NextPool ==
    \/ ParseSSFCall
    \/ ParseSSFGet
    \/ ParseSSFUnmarshal
    \/ WriteSSFGet
    \/ WriteSSFMarshal
    \/ WriteSSFVersion
    \/ WriteSSFLength
    \/ WriteSSFPayload
    \/ Yield

SpecPool == InitPool /\ [][NextPool]_vars

NextResolver == ResolveEndpoint

SpecResolver == InitResolver /\ [][NextResolver]_vars

---------------------------------------------------------------------------
(* The stream as a sequence of frames, for stating the claims. *)

Avail(pos) == Len(in.data) - pos
DeclaredLength(pos) == Uint32(SubSeq(in.data, pos + 2, pos + 5))
FrameEnd(pos) == pos + SSFFrameLength + DeclaredLength(pos)
PayloadAt(pos) == SubSeq(in.data, pos + SSFFrameLength + 1, FrameEnd(pos))

\* at pos stands a header of version 0 with a length within the maximum
ValidHeader(pos) ==
    /\ Avail(pos) >= SSFFrameLength
    /\ in.data[pos + 1] = version0
    /\ DeclaredLength(pos) <= MaxSSFPacketLength

\* ... and all the payload bytes it declares
WholeFrame(pos) ==
    /\ ValidHeader(pos)
    /\ Avail(pos) >= SSFFrameLength + DeclaredLength(pos)

\* the stream ends inside the frame that starts at pos with version 0
Truncated(pos) ==
    /\ Avail(pos) >= 1
    /\ in.data[pos + 1] = version0
    /\ IF Avail(pos) < SSFFrameLength THEN TRUE
       ELSE /\ DeclaredLength(pos) <= MaxSSFPacketLength
            /\ Avail(pos) < SSFFrameLength + DeclaredLength(pos)

\* where the whole frames from pos on start
RECURSIVE FrameStarts(_)
FrameStarts(pos) ==
    IF WholeFrame(pos) THEN <<pos>> \o FrameStarts(FrameEnd(pos)) ELSE <<>>

\* the stream is whole frames back to back and then closed
WellFormedStream ==
    /\ in.end = "EOF"
    /\ LET fs == FrameStarts(0)
       IN  IF Len(fs) = 0 THEN Len(in.data) = 0
           ELSE FrameEnd(Last(fs)) = Len(in.data)

Outcome(kind, to, span) == [kind |-> kind, to |-> to, span |-> span]
OutcomeOf(e) == Outcome(e.kind, e.to, e.span)

\* what a call of ReadSSF that starts at pos can return, and where it leaves
\* the stream
ReadSSFOutcomes(pos) ==
    IF Avail(pos) = 0
    THEN {Outcome(IF in.end = "EOF" THEN "EOF" ELSE "FramingIO", pos, ZeroSpan)}
    ELSE IF in.data[pos + 1] # version0
    THEN {Outcome("FrameVersion", pos + 1, ZeroSpan)}
    ELSE IF Avail(pos) < SSFFrameLength
    THEN {Outcome("FramingIO", Len(in.data), ZeroSpan)}
    ELSE IF DeclaredLength(pos) > MaxSSFPacketLength
    THEN {Outcome("FrameLength", pos + SSFFrameLength, ZeroSpan)}
    ELSE IF Avail(pos) < SSFFrameLength + DeclaredLength(pos)
    THEN {Outcome("FramingIO", Len(in.data), ZeroSpan)}
    ELSE LET res == ParseSSFResult(PayloadAt(pos))
         IN  {Outcome(res.kind, FrameEnd(pos), res.span)}
             \cup (IF FrameEnd(pos) = Len(in.data)
                   THEN {Outcome("FramingIO", Len(in.data), ZeroSpan)} ELSE {})

\* every call of ReadSSF returned one of them
ReadsAreOutcomes ==
    \A i \in 1..Len(reads) : OutcomeOf(reads[i]) \in ReadSSFOutcomes(reads[i].from)

---------------------------------------------------------------------------
(* Claims about ReadSSF. *)

\* C1: on a stream of k whole frames that is then closed, however the reads
\* are split, the calls of ReadSSF return the frames' decoded payloads in
\* stream order, each call taking exactly its frame's 5+L bytes, and the
\* call after the last frame returns the bare EOF.
C1_FramesInOrder ==
    WellFormedStream =>
        LET fs == FrameStarts(0)
        IN  /\ Len(reads) <= Len(fs) + 1
            /\ \A i \in 1..Len(reads) :
                 IF i <= Len(fs)
                 THEN /\ reads[i].from = fs[i]
                      /\ reads[i].to = FrameEnd(fs[i])
                      /\ reads[i].kind = ParseSSFResult(PayloadAt(fs[i])).kind
                      /\ reads[i].span = ParseSSFResult(PayloadAt(fs[i])).span
                 ELSE reads[i].kind = "EOF"

\* C2: ReadSSF returns the bare EOF exactly when the stream had ended, by
\* EOF, with no byte left at the start of the call, and then it has taken no
\* byte; when the stream ends by EOF inside a frame (inside its header, or
\* before the declared payload is complete) the call returns a framing I/O
\* error.
C2_CleanEndOnlyAtBoundary ==
    \A i \in 1..Len(reads) :
        LET e == reads[i]
        IN  /\ (e.kind = "EOF") <=> (in.end = "EOF" /\ Avail(e.from) = 0)
            /\ e.kind = "EOF" => e.to = e.from
            /\ (in.end = "EOF" /\ Truncated(e.from)) =>
                   (e.kind = "FramingIO" /\ IsFramingError(e.kind))

\* a second call found two of the five header bytes and then the end
C2_Witness ==
    /\ Len(reads) = 2
    /\ in.end = "EOF"
    /\ reads[1].kind = "msg"
    /\ reads[2].kind = "FramingIO"
    /\ reads[2].to - reads[2].from = 2

\* C3: when the first byte of a frame is not 0, ReadSSF returns the version
\* error with that byte, having taken exactly one byte; the call never gets
\* to reading a length or a payload.
C3_VersionError ==
    /\ \A i \in 1..Len(reads) :
         LET e == reads[i]
             other == Avail(e.from) >= 1 /\ in.data[e.from + 1] # version0
         IN  /\ other <=> e.kind = "FrameVersion"
             /\ other => (e.to = e.from + 1 /\ e.val = in.data[e.from + 1])
    /\ pc \in {"length", "payload", "parse", "unmarshal"} =>
         (in.data[frame.start + 1] = version0 /\ in.pos > frame.start)

\* the version error came back with bytes of the stream still unread
C3_Witness ==
    \E i \in 1..Len(reads) :
        reads[i].kind = "FrameVersion" /\ Avail(reads[i].to) > 0

\* C4: ReadSSF returns the length error exactly when the header declares a
\* length over MaxSSFPacketLength, and then it has taken exactly the five
\* header bytes; the payload is only ever read for a length within the
\* maximum, the maximum itself included.
C4_LengthError ==
    /\ \A i \in 1..Len(reads) :
         LET e == reads[i]
             over == /\ Avail(e.from) >= SSFFrameLength
                     /\ in.data[e.from + 1] = version0
                     /\ DeclaredLength(e.from) > MaxSSFPacketLength
         IN  /\ over <=> e.kind = "FrameLength"
             /\ over => (e.to = e.from + SSFFrameLength /\ e.val = DeclaredLength(e.from))
    /\ pc \in {"payload", "parse", "unmarshal"} =>
         /\ frame.length = DeclaredLength(frame.start)
         /\ frame.length <= MaxSSFPacketLength
         /\ Len(frame.bts) <= frame.length
    /\ pc \in {"version", "length"} => frame.bts = <<>>

\* the length error came back with the bytes behind the header unread
C4_Witness ==
    \E i \in 1..Len(reads) :
        /\ reads[i].kind = "FrameLength"
        /\ reads[i].val = MaxSSFPacketLength + 1
        /\ Avail(reads[i].to) > 0

\* a header declaring exactly the maximum got to the payload read
C4_MaxAccepted == pc = "payload" /\ frame.length = MaxSSFPacketLength

\* C5: when ReadSSF returns a decode error, the frame had a valid header, the
\* call has taken exactly its 5+L bytes, the error is no framing error and the
\* caller may read on; the next call starts right behind the frame and
\* returns what a call at that place of the stream returns.  And a whole
\* frame with an undecodable payload that is followed by more bytes does get
\* the decode error.
C5_DecodeErrorNotFatal ==
    \A i \in 1..Len(reads) :
        LET e == reads[i]
        IN  /\ e.kind = "Decode" =>
                 /\ WholeFrame(e.from)
                 /\ UnmarshalFails(PayloadAt(e.from))
                 /\ e.to = FrameEnd(e.from)
                 /\ ~IsFramingError(e.kind)
                 /\ (i = Len(reads) /\ pc = "idle") => MayRead
                 /\ i < Len(reads) =>
                      /\ reads[i + 1].from = e.to
                      /\ OutcomeOf(reads[i + 1]) \in ReadSSFOutcomes(e.to)
            /\ ( /\ WholeFrame(e.from)
                 /\ UnmarshalFails(PayloadAt(e.from))
                 /\ Avail(FrameEnd(e.from)) > 0 ) => e.kind = "Decode"

\* a decode error, and the next call returned the next frame's message
C5_Witness ==
    \E i \in 1..(Len(reads) - 1) :
        /\ reads[i].kind = "Decode"
        /\ reads[i + 1].kind = "msg"
        /\ reads[i + 1].to - reads[i + 1].from > SSFFrameLength

---------------------------------------------------------------------------
(* Claims about WriteSSF and the pool. *)

\* a Write call of the call that returned e failed
FailedIn(e) == e.ncall - e.calls < out.failOn /\ out.failOn <= e.ncall

\* C6: a WriteSSF call whose serialization and writes all succeed has put on
\* the stream, in three Write calls and in this order, the version byte 0,
\* the payload length L as four bytes with the most significant first, and the
\* L payload bytes, and nothing else; it returns L and no error.
C6_FrameWritten ==
    \A i \in 1..Len(writes) :
        LET e == writes[i]
            payload == Marshal(e.span)
            put == SubSeq(out.written, e.from + 1, e.to)
        IN  /\ (~MarshalFails(e.span) /\ ~FailedIn(e)) <=> e.kind = "ok"
            /\ e.kind = "ok" =>
                 /\ put = <<version0>> \o PutUint32(Size(payload)) \o payload
                 /\ Size(put) = SSFFrameLength + Size(payload)
                 /\ Uint32(SubSeq(put, 2, 5)) = Size(payload)
                 /\ Size(payload) < 256 =>
                      (put[2] = 0 /\ put[3] = 0 /\ put[4] = 0 /\ put[5] = Size(payload))
                 /\ e.val = Size(payload)
                 /\ e.calls = 3

\* a second frame with a payload was written behind a first one
C6_Witness ==
    \E i \in 2..Len(writes) :
        /\ writes[i - 1].kind = "ok" /\ writes[i - 1].val > 0
        /\ writes[i].kind = "ok" /\ writes[i].val > 0

\* C7: when the serialization of the span fails, WriteSSF returns 0 and an
\* error that is no framing error, having made no Write call: the stream holds
\* what it held before, and the caller may write on.
C7_EncodeFailure ==
    /\ \A i \in 1..Len(writes) :
         LET e == writes[i]
         IN  /\ MarshalFails(e.span) <=> e.kind = "Encode"
             /\ MarshalFails(e.span) =>
                  /\ e.val = 0
                  /\ ~IsFramingError(e.kind)
                  /\ e.calls = 0
                  /\ e.to = e.from
                  /\ (i = Len(writes) => MayWrite)
    /\ pc = "marshal" => (Len(out.written) = frame.start /\ out.calls = frame.calls)

\* a span that does not serialize came after a frame, and the stream holds
\* that frame and no more
C7_Witness ==
    \E i \in 2..Len(writes) :
        /\ writes[i - 1].kind = "ok"
        /\ writes[i].kind = "Encode"
        /\ writes[i].to = writes[i - 1].to
        /\ Len(out.written) = writes[i - 1].to

\* C8: a WriteSSF call one of whose Write calls fails returns a framing I/O
\* error, and that Write call is its last: no Write call follows a failed one.
C8_WriteFailure ==
    /\ out.failOn > 0 => out.calls <= out.failOn
    /\ \A i \in 1..Len(writes) :
         LET e == writes[i]
         IN  /\ FailedIn(e) <=> e.kind = "FramingIO"
             /\ FailedIn(e) => (IsFramingError(e.kind) /\ e.ncall = out.failOn)

\* the write of the length failed with three of its four bytes taken
C8_Witness ==
    \E i \in 1..Len(writes) :
        /\ writes[i].kind = "FramingIO"
        /\ writes[i].calls = 2
        /\ writes[i].to - writes[i].from = 4

\* C9: every buffer an operation took from the pool is back in the pool,
\* reset, when the operation has returned, whatever the way out.
C9_BuffersReleased ==
    /\ unreleased = <<>>
    /\ pc = "idle" => held = NoBuf
    /\ \A i \in 1..Len(pbufPool) : pbufPool[i].buf = <<>>

\* the frames written without error, in order
written == SelectSeq(writes, LAMBDA e : e.kind = "ok")

\* C10: what WriteSSF wrote for a span, read back with ReadSSF, is a message
\* whose span is the written span with ParseSSF's normalization applied.
C10_RoundTrip ==
    (in.end # "none" /\ MayWrite) =>
        \A i \in 1..Len(reads) :
            i <= Len(written) =>
                /\ reads[i].kind = "msg"
                /\ reads[i].span = Normalize(written[i].span)

\* the part of it that holds: a message ReadSSF does return for a written
\* frame has the written span, normalized
RoundTripOfDelivered ==
    (in.end # "none" /\ MayWrite) =>
        \A i \in 1..Len(reads) :
            (i <= Len(written) /\ reads[i].kind = "msg") =>
                reads[i].span = Normalize(written[i].span)

---------------------------------------------------------------------------
(* Claims about the length bound. *)

\* ReadSSF takes no run off a stream: on all it reads, a position is a count
\* of bytes
RunsUnread == \A i \in 1..in.pos : in.data[i] < 256

\* the length field of the frame the call that returned e put on the stream
LengthWritten(e) == Uint32(SubSeq(out.written, e.from + 2, e.from + 5))

\* C11: no length over MaxSSFPacketLength is read or encoded: ReadSSF reads a
\* payload only for a length within the maximum, the length field of a frame
\* WriteSSF wrote without error is within the maximum, and read back that
\* frame passes ReadSSF's length check.
C11_LengthWithinMax ==
    /\ pc \in {"payload", "parse", "unmarshal"} => frame.length <= MaxSSFPacketLength
    /\ \A i \in 1..Len(writes) :
         writes[i].kind = "ok" =>
             /\ LengthWritten(writes[i]) <= MaxSSFPacketLength
             /\ LengthResult(SubSeq(out.written, writes[i].from + 2, writes[i].from + 5),
                             "nil") = "go on"
    /\ (in.end # "none" /\ MayWrite) =>
         \A i \in 1..Len(reads) : i <= Len(written) => reads[i].kind # "FrameLength"

---------------------------------------------------------------------------
(* Claims about Message. *)

\* C12: TraceSpan returns the message's own span and no error exactly when
\* Id, TraceId, StartTimestamp and EndTimestamp of the span are all nonzero,
\* which is when ValidTrace is true of it, whatever the order of the two
\* timestamps; otherwise it returns no span and an InvalidTrace error that
\* carries the message's span.
C12_TraceSpan ==
    \A j \in 1..Len(log) :
        log[j].op = "TraceSpan" =>
            LET s == log[log[j].msg].span
                nonzero == /\ s.Id # 0 /\ s.TraceId # 0
                           /\ s.StartTimestamp # 0 /\ s.EndTimestamp # 0
            IN  /\ ValidTrace(s) <=> nonzero
                /\ IF nonzero
                   THEN /\ log[j].kind = "nil"
                        /\ log[j].span = s
                        /\ log[j].errspan = NilSpan
                   ELSE /\ log[j].kind = "InvalidTrace"
                        /\ log[j].span = NilSpan
                        /\ log[j].errspan = s

\* InvalidTrace for a span of which only EndTimestamp is zero
C12_Witness ==
    \E j \in 1..Len(log) :
        /\ log[j].op = "TraceSpan"
        /\ log[j].kind = "InvalidTrace"
        /\ log[j].errspan.Id # 0 /\ log[j].errspan.TraceId # 0
        /\ log[j].errspan.StartTimestamp # 0 /\ log[j].errspan.EndTimestamp = 0

\* a span that ends before it starts was returned as a trace span
C12_UnorderedReturned ==
    \E j \in 1..Len(log) :
        /\ log[j].op = "TraceSpan"
        /\ log[j].kind = "nil"
        /\ log[j].span.StartTimestamp > log[j].span.EndTimestamp

\* C13: Metrics returns the samples of the message's span: as many as the
\* packet decodes to and in that order, each with its decoded rate, 1 for a
\* decoded 0; and so whether or not the span is a valid trace.
C13_Metrics ==
    \A j \in 1..Len(log) :
        log[j].op = "Metrics" =>
            LET m == log[log[j].msg]
                dec == Unmarshal(m.bts).Metrics
                res == log[j].samples
            IN  /\ m.kind = "msg"
                /\ res = m.span.Metrics
                /\ Len(res) = Len(dec)
                /\ \A i \in 1..Len(dec) :
                     res[i] = Sample(IF dec[i].SampleRate = 0 THEN 1 ELSE dec[i].SampleRate)

\* TraceSpan failed on a message, and Metrics returned its two samples
C13_Witness ==
    \E j \in 2..Len(log) :
        /\ log[j].op = "Metrics"
        /\ log[j - 1].op = "TraceSpan"
        /\ log[j - 1].kind = "InvalidTrace"
        /\ log[j - 1].msg = log[j].msg
        /\ log[j].samples = <<Sample(2), Sample(1)>>

---------------------------------------------------------------------------
(* Claims about ParseSSF's normalization. *)

\* the messages ParseSSF returned, to ReadSSF or to the caller
parsed == SelectSeq(log, LAMBDA e : e.op \in {"ParseSSF", "ReadSSF"} /\ e.kind = "msg")

\* C14: when the packet decodes to an empty Name and to Tags with the key
\* "name", the message's Name is that tag's value and its Tags are the
\* decoded ones without that key; when it decodes to a non-empty Name, the
\* message has the decoded Name and the decoded tags, a "name" tag among
\* them if there was one.
C14_NameBackfill ==
    \A i \in 1..Len(parsed) :
        LET dec == Unmarshal(parsed[i].bts)
            got == parsed[i].span
            named == {p \in dec.Tags.kv : p[1] = "name"}
        IN  IF dec.Name = ""
            THEN /\ \A p \in named : got.Name = p[2]
                 /\ named = {} => got.Name = ""
                 /\ got.Tags.kv = dec.Tags.kv \ named
                 /\ \A p \in got.Tags.kv : p[1] # "name"
            ELSE /\ got.Name = dec.Name
                 /\ got.Tags.kv = dec.Tags.kv

\* Name "" with the tags name=foo and host=bar became Name "foo" with the
\* tag host=bar
C14_Witness ==
    \E i \in 1..Len(parsed) :
        /\ Unmarshal(parsed[i].bts).Name = ""
        /\ Unmarshal(parsed[i].bts).Tags = MkTags({<<"name", "foo">>, <<"host", "bar">>})
        /\ parsed[i].span.Name = "foo"
        /\ parsed[i].span.Tags = MkTags({<<"host", "bar">>})

\* a message with a name kept its tag "name"
C14_NameTagKept ==
    \E i \in 1..Len(parsed) :
        /\ parsed[i].span.Name = "bar"
        /\ <<"name", "foo">> \in parsed[i].span.Tags.kv

\* C15: normalization is idempotent: the three rules applied to the span of
\* a message ParseSSF returned change nothing, and a message's span
\* serialized and parsed again gives a message with an equal span.
C15_Idempotent ==
    /\ \A i \in 1..Len(parsed) :
         LET got == parsed[i].span
             again == Normalize(got)
         IN  /\ again.Name = got.Name
             /\ again.Tags = got.Tags
             /\ again.Metrics = got.Metrics
             /\ again = got
    /\ \A i \in 2..Len(parsed) :
         parsed[i].bts = Marshal(parsed[i - 1].span) => parsed[i].span = parsed[i - 1].span

\* a message whose name came from the tag and whose two rates came from 0
\* was serialized and parsed again
C15_Witness ==
    \E i \in 2..Len(parsed) :
        /\ Unmarshal(parsed[i - 1].bts).Name = ""
        /\ Unmarshal(parsed[i - 1].bts).Metrics = <<Sample(0), Sample(0)>>
        /\ parsed[i - 1].span.Name = "foo"
        /\ parsed[i].bts = Marshal(parsed[i - 1].span)
        /\ parsed[i].span = parsed[i - 1].span

\* a packet with the tag "name" of value "" was parsed, and its message
\* parsed again
C15_EmptyNameTag ==
    \E i \in 2..Len(parsed) :
        /\ <<"name", "">> \in Unmarshal(parsed[i - 1].bts).Tags.kv
        /\ Unmarshal(parsed[i - 1].bts).Name = ""
        /\ parsed[i].bts = Marshal(parsed[i - 1].span)

---------------------------------------------------------------------------
(* Claims about the messages ParseSSF returns. *)

\* C21: every message ParseSSF returned without error, to its caller or to
\* ReadSSF, has Tags that are not nil; has the decoded samples in their
\* decoded order, none of them with the rate 0: a decoded rate of 0 is 1 and
\* every other rate is the decoded one; and has no tag "name" when its Name
\* is empty.
C21_Normalized ==
    \A i \in 1..Len(parsed) :
        LET dec == Unmarshal(parsed[i].bts)
            got == parsed[i].span
        IN  /\ got.Tags.nil = FALSE
            /\ Len(got.Metrics) = Len(dec.Metrics)
            /\ \A j \in 1..Len(got.Metrics) :
                 /\ got.Metrics[j].nil = FALSE
                 /\ got.Metrics[j].SampleRate # 0
                 /\ got.Metrics[j].SampleRate =
                        IF dec.Metrics[j].SampleRate = 0 THEN 1 ELSE dec.Metrics[j].SampleRate
            /\ got.Name = "" => \A p \in got.Tags.kv : p[1] # "name"

\* a packet without tags, with a name and with the rates 2 and 0 was parsed:
\* the message has the empty map and the rates 2 and 1
C21_Witness ==
    \E i \in 1..Len(parsed) :
        /\ Unmarshal(parsed[i].bts).Tags.nil
        /\ Unmarshal(parsed[i].bts).Name = "bar"
        /\ Unmarshal(parsed[i].bts).Metrics = <<Sample(2), Sample(0)>>
        /\ parsed[i].span.Tags = MkTags({})
        /\ parsed[i].span.Metrics = <<Sample(2), Sample(1)>>

\* a packet with no name and the tag "name" of value "" was parsed: the
\* message has the empty Name and no tag "name"
C21_EmptyNameNoTag ==
    \E i \in 1..Len(parsed) :
        /\ Unmarshal(parsed[i].bts).Tags.kv = {<<"name", "">>}
        /\ parsed[i].span.Name = ""
        /\ parsed[i].span.Tags = MkTags({})

---------------------------------------------------------------------------
(* Claims about the pool under two goroutines. *)

\* every call returned what it returns when it runs alone
ResultsAsAlone ==
    /\ \A i \in 1..Len(parses) :
         LET e == parses[i]
         IN  e.kind = ParseSSFResult(e.bts).kind /\ e.span = ParseSSFResult(e.bts).span
    /\ \A i \in 1..Len(writes) :
         LET e == writes[i]
         IN  /\ MarshalFails(e.span) <=> e.kind = "Encode"
             /\ e.kind = "ok" =>
                  /\ SubSeq(out.written, e.from + 1, e.to) = Frame(Marshal(e.span))
                  /\ e.val = Size(Marshal(e.span))

\* no buffer is held by two calls, or held by one and in the pool
BuffersExclusive ==
    LET running == IF held = NoBuf THEN {} ELSE {held.id}
        waiting == IF sched.parked.held = NoBuf THEN {} ELSE {sched.parked.held.id}
        pooled == {pbufPool[i].id : i \in 1..Len(pbufPool)}
    IN  /\ running \cap waiting = {}
        /\ (running \cup waiting) \cap pooled = {}
        /\ Cardinality(pooled) = Len(pbufPool)

\* the array of a packet handed to ParseSSF holds what the caller put there
PacketsIntact == \A b \in Live : b.arr = b.packet

\* C16: with calls of ParseSSF and WriteSSF of two goroutines interleaved
\* step by step on one pool, every call returns what it returns alone, no
\* buffer is held by two calls at once, and no packet a caller handed to
\* ParseSSF is written to by another call through a buffer of the pool.
C16_PoolSafety ==
    /\ ResultsAsAlone
    /\ BuffersExclusive
    /\ PacketsIntact

\* both goroutines are inside a call, each with a buffer
BothHold == held # NoBuf /\ sched.parked.held # NoBuf

---------------------------------------------------------------------------
(* Claims about the EndpointResolver. *)

C17_NeverCached ==
    \E i \in 1..Len(resolves) :
        /\ er.CacheProbability = 0
        /\ resolves[i].before # EmptyString
        /\ resolves[i].draw = 0
        /\ resolves[i].res.looked

\* C18: a call of ResolveEndpoint that returns no error returns its own
\* argument with the host replaced by an address its host resolved to; a
\* call that returns an error returns its argument and leaves the stored URL
\* as it was.
C18_OwnEndpoint ==
    \A i \in 1..Len(resolves) :
        LET e == resolves[i]
        IN  IF e.res.err = "nil"
            THEN /\ e.arg.kind = "url"
                 /\ e.res.url.kind = "url"
                 /\ e.res.url.port = e.arg.port
                 /\ \E dns \in LookupHost :
                      \E k \in 1..Len(dns[e.arg.host].names) :
                          e.res.url.host = dns[e.arg.host].names[k]
            ELSE /\ e.res.url = e.arg
                 /\ e.res.last = e.before

\* the part of it that holds: so it is for every call that does not return
\* the stored URL
OwnEndpointUnlessCached ==
    \A i \in 1..Len(resolves) :
        LET e == resolves[i]
        IN  IF e.res.err = "nil"
            THEN IF e.res.cached THEN TRUE
                 ELSE /\ e.res.url = Url(e.names[1], e.arg.port)
                      /\ e.res.last = e.res.url
            ELSE /\ e.res.url = e.arg
                 /\ e.res.last = e.before

---------------------------------------------------------------------------
(* Claims about readFrame. *)

\* C19: when the stream holds all the L > 0 payload bytes a valid header
\* declares, ReadSSF takes the frame's 5+L bytes and returns what the decoder
\* makes of the payload, also when the Read that delivers the last of them
\* comes back with EOF or another error; a framing I/O error on the payload
\* means fewer than L bytes were there.
C19_PayloadWithError ==
    \A i \in 1..Len(reads) :
        LET e == reads[i]
        IN  /\ (WholeFrame(e.from) /\ DeclaredLength(e.from) > 0) =>
                 /\ e.kind = ParseSSFResult(PayloadAt(e.from)).kind
                 /\ e.span = ParseSSFResult(PayloadAt(e.from)).span
                 /\ e.to = FrameEnd(e.from)
            /\ (e.kind = "FramingIO" /\ ValidHeader(e.from)
                    /\ DeclaredLength(e.from) > 0) =>
                 Avail(e.from) < SSFFrameLength + DeclaredLength(e.from)

\* C20: a frame of version 0 and length 0 is a frame: ReadSSF takes its five
\* header bytes and returns what the decoder makes of the empty payload,
\* with more frames behind it or with the stream closed right behind it; the
\* next call starts behind the header and returns the next frame or the
\* bare EOF.
C20_ZeroLengthFrame ==
    \A i \in 1..Len(reads) :
        LET e == reads[i]
        IN  ( /\ ValidHeader(e.from)
              /\ DeclaredLength(e.from) = 0
              /\ (Avail(e.from + SSFFrameLength) > 0 \/ in.end = "EOF") ) =>
                 /\ e.to = e.from + SSFFrameLength
                 /\ e.kind = ParseSSFResult(<<>>).kind
                 /\ e.span = ParseSSFResult(<<>>).span
                 /\ e.bts = <<>>
                 /\ i < Len(reads) =>
                      /\ reads[i + 1].from = e.to
                      /\ Avail(e.to) = 0 => reads[i + 1].kind = "EOF"
                      /\ (WholeFrame(e.to) /\ DeclaredLength(e.to) > 0
                             /\ Avail(FrameEnd(e.to)) > 0) =>
                           reads[i + 1].kind = ParseSSFResult(PayloadAt(e.to)).kind

\* the part of it that holds: so it is for a frame of length 0 with more
\* bytes behind it
ZeroLengthFrameInside ==
    \A i \in 1..Len(reads) :
        LET e == reads[i]
        IN  ( /\ ValidHeader(e.from)
              /\ DeclaredLength(e.from) = 0
              /\ Avail(e.from + SSFFrameLength) > 0 ) =>
                 /\ e.to = e.from + SSFFrameLength
                 /\ e.kind = ParseSSFResult(<<>>).kind
                 /\ e.span = ParseSSFResult(<<>>).span

====
